---- MODULE Spec2Model ----
(***************************************************************************)
(* The API-key lifecycle of the NWSL API: registration, verification of    *)
(* the X-API-Key header, key listing and revocation, as HTTP requests that *)
(* run concurrently against the api_keys table.                            *)
(*                                                                         *)
(* A second specification follows one request to a protected resource      *)
(* route from its key verification to its database calls; a third one a    *)
(* client that pages through a list endpoint over a static table; a fourth *)
(* the WHERE clause a handler builds from its optional filters.            *)
(*                                                                         *)
(* A request runs its Python code up to the await of the database call in  *)
(* one step (pc "idle" -> "db") and the SQL statement, with the rest of    *)
(* the handler, in a second step (pc "db" -> "done"): requests interleave  *)
(* at the await, and one SQL statement is atomic in the database. A        *)
(* handler that reads nothing shared before its statement is one step.     *)
(***************************************************************************)
EXTENDS Naturals, Integers, Sequences, FiniteSets, TLC

VARIABLES api_keys, req, clock, handler, pager, query, pool

vars == <<api_keys, req, clock, handler, pager, query, pool>>

\* The API-key lifecycle; a protected resource request; a client paging through
\* a list endpoint; the WHERE clause one call site builds; the connections of
\* the pool.
keyvars == <<api_keys, req, clock>>

(* ------------------------------ bounds -------------------------------- *)

\* Number of HTTP requests of one run.
MaxReqs == 3

Reqs == 1..MaxReqs

Names == {"demo", "app"}

Emails == {"a@b.com", "c@d.com"}

\* The {name, email} bodies of POST /register: two names of one owner, and one
\* name of two owners.
Registrations ==
    {<<"demo", "a@b.com">>, <<"app", "a@b.com">>, <<"demo", "c@d.com">>}

\* string.ascii_letters + string.digits
Alphabet == "abcdefghijklmnopqrstuvwxyzABCDEFGHIJKLMNOPQRSTUVWXYZ0123456789"

\* range(48)
RandomLength == 48

\* What secrets.choice may draw for the places of the random part, as places
\* of the alphabet: "a" at every place, and "b" and "0" in turn.
Draws ==
    {[i \in 1..RandomLength |-> 1],
     [i \in 1..RandomLength |-> IF i % 2 = 1 THEN 2 ELSE 53]}

\* ''.join(secrets.choice(alphabet) for _ in range(n)) for the draws draw.
RECURSIVE JoinChoices(_, _)
JoinChoices(draw, n) ==
    IF n = 0
    THEN ""
    ELSE JoinChoices(draw, n - 1) \o SubSeq(Alphabet, draw[n], draw[n])

\* Values the random generator may draw for the 48 random characters.
RandomParts == {JoinChoices(draw, RandomLength) : draw \in Draws}

\* Values of the key_id path parameter: the ids rows can get (no two rows share
\* a key); the larger one is the id of no row until a second key is stored.
KeyIds == 1..Cardinality(RandomParts)

(* ------------------------- configuration, helpers --------------------- *)

DEMO_API_KEY == "nwsl-demo-key-2024"

\* As generate_api_key, had the token another prefix.
generate_api_keyTest(random_part) == "nwsl_test_" \o random_part

generate_api_key(random_part) == "nwsl_live_" \o random_part

\* Tokens a client may present in the X-API-Key header ("" is no header).
PresentedKeys ==
    {"", DEMO_API_KEY} \cup {generate_api_key(p) : p \in RandomParts}

\* SQL NULL / Python None, and a present value, as a sequence of length 0 or 1.
NULL == <<>>

Some(v) == <<v>>

NoResp ==
    [status |-> 0, detail |-> "", api_key |-> "", key_info |-> NULL, keys |-> <<>>,
     total |-> 0]

\* A request: where it is, what it carries, the number of statements it has
\* sent to the database, and its response.
IdleReq ==
    [pc |-> "idle", op |-> "", name |-> "", email |-> "", api_key |-> "",
     key_id |-> 0, ts |-> 0, calls |-> 0, resp |-> NoResp]

Resp(status, detail) == [NoResp EXCEPT !.status = status, !.detail = detail]

(* ------------------------- the api_keys table ------------------------- *)

\* The columns create_api_key's INSERT does not name: the server-generated id
\* and the defaults of the table.
ColumnDefaults(id) ==
    [id |-> id, last_used |-> NULL, usage_count |-> 0, rate_limit |-> "default"]

\* As NewRow, had the INSERT stored FALSE in is_active.
NewRowInactive(id, key, name, email, created_at) ==
    [key |-> key, name |-> name, email |-> email, created_at |-> created_at,
     is_active |-> FALSE] @@ ColumnDefaults(id)

\* The row the INSERT of create_api_key adds.
NewRow(id, key, name, email, created_at) ==
    [key |-> key, name |-> name, email |-> email, created_at |-> created_at,
     is_active |-> TRUE] @@ ColumnDefaults(id)

\* As InsertError, had the table no unique constraint on key.
InsertErrorPairOnly(rows, key, name, email) ==
    IF \E i \in DOMAIN rows : rows[i].email = email /\ rows[i].name = name
    THEN "unique_email_name"
    ELSE ""

\* The unique constraint an INSERT violates ("" when it violates none): the
\* (email, name) pair is unique, and so is key. A duplicate pair is reported as
\* unique_email_name, the name register_for_api_key looks for.
InsertError(rows, key, name, email) ==
    IF \E i \in DOMAIN rows : rows[i].email = email /\ rows[i].name = name
    THEN "unique_email_name"
    ELSE IF \E i \in DOMAIN rows : rows[i].key = key
    THEN "api_keys_key_key"
    ELSE ""

\* As ValidateMatches, had a key been accepted on its first use only.
ValidateMatchesOnce(rows, key) ==
    {i \in DOMAIN rows :
        rows[i].key = key /\ rows[i].is_active = TRUE /\ rows[i].usage_count = 0}

\* As ValidateMatches, had the WHERE clause no "AND is_active = TRUE".
ValidateMatchesAnyState(rows, key) ==
    {i \in DOMAIN rows : rows[i].key = key}

\* Rows selected by the WHERE clause of validate_api_key's UPDATE.
ValidateMatches(rows, key) ==
    {i \in DOMAIN rows : rows[i].key = key /\ rows[i].is_active = TRUE}

\* As ValidateSet, had the SET clause "usage_count = usage_count + 2".
ValidateSetByTwo(row, now) ==
    [row EXCEPT !.last_used = Some(now), !.usage_count = row.usage_count + 2]

\* As ValidateSet, had the SET clause no "usage_count = usage_count + 1".
ValidateSetNoCount(row, now) ==
    [row EXCEPT !.last_used = Some(now)]

\* The SET clause of validate_api_key's UPDATE, on one row.
ValidateSet(row, now) ==
    [row EXCEPT !.last_used = Some(now), !.usage_count = row.usage_count + 1]

\* As RevokeMatches, had the WHERE clause no "AND email = $2".
RevokeMatchesAnyOwner(rows, key_id, email) ==
    {i \in DOMAIN rows : rows[i].id = key_id}

\* As RevokeMatches, had the WHERE clause also "AND is_active = TRUE".
RevokeMatchesActiveOnly(rows, key_id, email) ==
    {i \in DOMAIN rows :
        rows[i].id = key_id /\ rows[i].email = email /\ rows[i].is_active = TRUE}

\* Rows selected by the WHERE clause of revoke_api_key's UPDATE.
RevokeMatches(rows, key_id, email) ==
    {i \in DOMAIN rows : rows[i].id = key_id /\ rows[i].email = email}

\* As RevokeSet, had revocation also reset the usage counter.
RevokeSetResetCount(row) == [row EXCEPT !.is_active = FALSE, !.usage_count = 0]

\* The SET clause of revoke_api_key's UPDATE, on one row.
RevokeSet(row) == [row EXCEPT !.is_active = FALSE]

\* The columns get_user_keys selects.
ListedColumns(row) ==
    [id |-> row.id, key |-> row.key, name |-> row.name, created_at |-> row.created_at,
     last_used |-> row.last_used, usage_count |-> row.usage_count,
     is_active |-> row.is_active]

\* As UserKeyIds, had the listing left revoked keys out.
UserKeyIdsActiveOnly(rows, email) ==
    {i \in DOMAIN rows : rows[i].email = email /\ rows[i].is_active = TRUE}

\* Rows selected by get_user_keys.
UserKeyIds(rows, email) == {i \in DOMAIN rows : rows[i].email = email}

\* As CreatedDescOrders, had the listing been ORDER BY created_at ASC.
CreatedAscOrders(rows, ids) ==
    {s \in [1..Cardinality(ids) -> ids] :
        /\ \A a, b \in DOMAIN s : a # b => s[a] # s[b]
        /\ \A a, b \in DOMAIN s : a < b => rows[s[a]].created_at <= rows[s[b]].created_at}

\* The orders ORDER BY created_at DESC allows for the rows ids (rows of equal
\* created_at come in any order).
CreatedDescOrders(rows, ids) ==
    {s \in [1..Cardinality(ids) -> ids] :
        /\ \A a, b \in DOMAIN s : a # b => s[a] # s[b]
        /\ \A a, b \in DOMAIN s : a < b => rows[s[a]].created_at >= rows[s[b]].created_at}

(* ------------------------------ requests ------------------------------ *)

\* Requests are numbered in the order they arrive.
Arrives(r) == req[r].pc = "idle" /\ (IF r = 1 THEN TRUE ELSE req[r - 1].pc # "idle")

\* datetime.utcnow(): time has passed since the clock was last read.
UtcNow == clock + 1

\* POST /register up to the await in create_api_key.
RegisterForApiKey(r, name, email, random_part) ==
    /\ Arrives(r)
    /\ clock' = UtcNow
    /\ req' = [req EXCEPT ![r] = [IdleReq EXCEPT !.pc = "db", !.op = "register",
                  !.name = name, !.email = email,
                  !.api_key = generate_api_key(random_part), !.ts = UtcNow]]
    /\ UNCHANGED <<api_keys, handler, pager, query, pool>>

\* As RegisterError, had the handler looked for another constraint name.
RegisterErrorOtherName(e) ==
    IF e = "api_keys_email_name_key"
    THEN Resp(400, "You already have an API key with this name")
    ELSE Resp(500, e)

\* What register_for_api_key answers when create_api_key raised e.
RegisterError(e) ==
    IF e = "unique_email_name"
    THEN Resp(400, "You already have an API key with this name")
    ELSE Resp(500, e)

\* The INSERT of create_api_key and the rest of register_for_api_key.
CreateApiKey(r) ==
    /\ req[r].pc = "db" /\ req[r].op = "register"
    /\ LET q == req[r]
           e == InsertError(api_keys, q.api_key, q.name, q.email)
           row == NewRow(Len(api_keys) + 1, q.api_key, q.name, q.email, q.ts)
       IN IF e = ""
          THEN /\ api_keys' = Append(api_keys, row)
               /\ req' = [req EXCEPT ![r].pc = "done", ![r].calls = @ + 1,
                             ![r].resp = [Resp(200, "API key created successfully")
                                            EXCEPT !.api_key = row.key]]
          ELSE /\ api_keys' = api_keys
               /\ req' = [req EXCEPT ![r].pc = "done", ![r].calls = @ + 1,
                             ![r].resp = RegisterError(e)]
    /\ UNCHANGED <<clock, handler, pager, query, pool>>

\* An error of the database or of the connection that is no constraint of the
\* table, as the text of its exception.
DatabaseError == "connection is closed"

\* The INSERT of create_api_key raises an error of the database: the "except
\* Exception" of register_for_api_key answers 500 with its text.
CreateApiKeyRaises(r) ==
    /\ req[r].pc = "db" /\ req[r].op = "register"
    /\ req' = [req EXCEPT ![r].pc = "done", ![r].calls = @ + 1,
                  ![r].resp = RegisterError(DatabaseError)]
    /\ UNCHANGED <<api_keys, clock, handler, pager, query, pool>>

\* As NoApiKey, had verify_api_key no test for a missing header.
NoApiKeyNever(api_key) == FALSE

\* "not api_key": the header is missing or empty.
NoApiKey(api_key) == api_key = ""

\* As IsDemoKey, had verify_api_key no demo key.
IsDemoKeyNever(api_key) == FALSE

\* "api_key == settings.DEMO_API_KEY".
IsDemoKey(api_key) == api_key = DEMO_API_KEY

\* A protected request: verify_api_key up to the await in validate_api_key.
VerifyApiKey(r, api_key) ==
    /\ Arrives(r)
    /\ IF NoApiKey(api_key)
       THEN /\ req' = [req EXCEPT ![r] = [IdleReq EXCEPT !.pc = "done", !.op = "verify",
                          !.api_key = api_key,
                          !.resp = Resp(403, "API key required. Get one at /register")]]
            /\ UNCHANGED clock
       ELSE IF IsDemoKey(api_key)
       THEN /\ req' = [req EXCEPT ![r] = [IdleReq EXCEPT !.pc = "done", !.op = "verify",
                          !.api_key = api_key,
                          !.resp = [Resp(200, "") EXCEPT !.key_info =
                              Some([name |-> "Demo User", email |-> "demo@nwsl-api.com"])]]]
            /\ UNCHANGED clock
       ELSE /\ req' = [req EXCEPT ![r] = [IdleReq EXCEPT !.pc = "db", !.op = "verify",
                          !.api_key = api_key, !.ts = UtcNow]]
            /\ clock' = UtcNow
    /\ UNCHANGED <<api_keys, handler, pager, query, pool>>

\* As KeyInfo, had the statement returned the count the row had before the
\* increment.
KeyInfoBefore(row) ==
    [id |-> row.id, name |-> row.name, email |-> row.email,
     rate_limit |-> row.rate_limit, usage_count |-> row.usage_count - 1]

\* The row the UPDATE of validate_api_key returns, as validate_api_key returns it.
KeyInfo(row) ==
    [id |-> row.id, name |-> row.name, email |-> row.email,
     rate_limit |-> row.rate_limit, usage_count |-> row.usage_count]

\* The UPDATE of validate_api_key and the rest of verify_api_key.
ValidateApiKey(r) ==
    /\ req[r].pc = "db" /\ req[r].op = "verify"
    /\ LET q == req[r]
           hit == ValidateMatches(api_keys, q.api_key)
       IN /\ api_keys' = [i \in DOMAIN api_keys |->
                             IF i \in hit THEN ValidateSet(api_keys[i], q.ts)
                             ELSE api_keys[i]]
          /\ IF hit = {}
             THEN req' = [req EXCEPT ![r].pc = "done", ![r].calls = @ + 1,
                             ![r].resp = Resp(403, "Invalid API key")]
             ELSE \E i \in hit :
                     /\ \A j \in hit : i <= j
                     /\ req' = [req EXCEPT ![r].pc = "done", ![r].calls = @ + 1,
                                   ![r].resp = [Resp(200, "") EXCEPT !.key_info =
                                                   Some(KeyInfo(api_keys'[i]))]]
    /\ UNCHANGED <<clock, handler, pager, query, pool>>

\* As ValidateApiKeyRaises, had verify_api_key caught the error of the store
\* and let the request pass.
ValidateApiKeyRaisesOpen(r) ==
    /\ req[r].pc = "db" /\ req[r].op = "verify"
    /\ req' = [req EXCEPT ![r].pc = "done", ![r].calls = @ + 1,
                  ![r].resp = [Resp(200, "") EXCEPT !.key_info =
                      Some([name |-> "Demo User", email |-> "demo@nwsl-api.com"])]]
    /\ UNCHANGED <<api_keys, clock, handler, pager, query, pool>>

\* The UPDATE of validate_api_key raises an error of the database. Neither
\* validate_api_key nor verify_api_key catches it: no identity is returned
\* and the request ends with the server error.
ValidateApiKeyRaises(r) ==
    /\ req[r].pc = "db" /\ req[r].op = "verify"
    /\ req' = [req EXCEPT ![r].pc = "done", ![r].calls = @ + 1,
                  ![r].resp = Resp(500, "Internal Server Error")]
    /\ UNCHANGED <<api_keys, clock, handler, pager, query, pool>>

\* GET /keys/{email}: get_my_keys with the SELECT of get_user_keys. The handler
\* touches nothing shared before or after its one statement.
GetMyKeys(r, email) ==
    /\ Arrives(r)
    /\ LET ids == UserKeyIds(api_keys, email)
       IN \E s \in CreatedDescOrders(api_keys, ids) :
             LET keys == [k \in DOMAIN s |-> ListedColumns(api_keys[s[k]])]
                 q == [IdleReq EXCEPT !.pc = "done", !.op = "list", !.email = email,
                                      !.calls = 1]
             IN IF keys = <<>>
                THEN req' = [req EXCEPT ![r] = [q EXCEPT !.resp =
                                Resp(404, "No API keys found for this email")]]
                ELSE req' = [req EXCEPT ![r] = [q EXCEPT !.resp =
                                [Resp(200, "") EXCEPT !.keys = keys, !.total = Len(keys)]]]
    /\ UNCHANGED <<api_keys, clock, handler, pager, query, pool>>

\* DELETE /keys/{key_id}: delete_api_key with the UPDATE of revoke_api_key. The
\* handler touches nothing shared before or after its one statement.
DeleteApiKey(r, key_id, email) ==
    /\ Arrives(r)
    /\ LET hit == RevokeMatches(api_keys, key_id, email)
           success == hit # {}
           q == [IdleReq EXCEPT !.pc = "done", !.op = "revoke", !.key_id = key_id,
                                !.email = email, !.calls = 1]
       IN /\ api_keys' = [i \in DOMAIN api_keys |->
                             IF i \in hit THEN RevokeSet(api_keys[i]) ELSE api_keys[i]]
          /\ IF ~success
             THEN req' = [req EXCEPT ![r] = [q EXCEPT !.resp =
                             Resp(404, "API key not found or you don't have permission to revoke it")]]
             ELSE req' = [req EXCEPT ![r] = [q EXCEPT !.resp =
                             Resp(200, "API key has been revoked")]]
    /\ UNCHANGED <<clock, handler, pager, query, pool>>

(* ---------------------- protected resource routes -------------------- *)

\* One route of a router: the handler, the dependencies= list of its
\* decorator, the number of database calls the handler awaits one after the
\* other, and the numbers of calls after which it may raise 404.
Route(name, dependencies, db_calls, not_found) ==
    [name |-> name, dependencies |-> dependencies, db_calls |-> db_calls,
     not_found |-> not_found]

teams_router ==
    {Route("get_teams", {"verify_api_key"}, 2, {}),
     Route("get_team", {"verify_api_key"}, 1, {1}),
     Route("get_team_players", {"verify_api_key"}, 2, {1}),
     Route("get_team_matches", {"verify_api_key"}, 2, {}),
     Route("get_team_stats", {"verify_api_key"}, 1, {1})}

players_router ==
    {Route("get_players", {"verify_api_key"}, 2, {}),
     Route("get_player", {"verify_api_key"}, 1, {1}),
     Route("get_player_matches", {"verify_api_key"}, 2, {}),
     Route("get_player_stats", {"verify_api_key"}, 3, {}),
     Route("get_player_teams", {"verify_api_key"}, 1, {1})}

matches_router ==
    {Route("get_matches", {"verify_api_key"}, 2, {}),
     Route("get_match", {"verify_api_key"}, 1, {1}),
     Route("get_match_lineups", {"verify_api_key"}, 2, {1}),
     Route("get_match_events", {"verify_api_key"}, 2, {1}),
     Route("get_match_stats", {"verify_api_key"}, 2, {1, 2})}

events_router ==
    {Route("get_events", {"verify_api_key"}, 2, {}),
     Route("get_goals", {"verify_api_key"}, 1, {}),
     Route("get_cards", {"verify_api_key"}, 1, {})}

stats_router ==
    {Route("get_goal_leaders", {"verify_api_key"}, 1, {}),
     Route("get_assist_leaders", {"verify_api_key"}, 1, {}),
     Route("get_clean_sheet_leaders", {"verify_api_key"}, 1, {}),
     Route("get_team_season_stats", {"verify_api_key"}, 3, {1}),
     Route("get_player_career_stats", {"verify_api_key"}, 3, {1})}

venues_router ==
    {Route("get_venues", {"verify_api_key"}, 1, {}),
     Route("get_venue", {"verify_api_key"}, 1, {1}),
     Route("get_venue_matches", {"verify_api_key"}, 3, {1}),
     Route("get_venue_stats", {"verify_api_key"}, 3, {1})}

\* As Routes, had the decorator of get_teams no dependencies= list.
RoutesOneOpen ==
    {Route("get_teams", {}, 2, {})}
        \cup ((teams_router \ {Route("get_teams", {"verify_api_key"}, 2, {})})
              \cup players_router \cup matches_router \cup events_router
              \cup stats_router \cup venues_router)

\* The resource routes the application mounts.
Routes ==
    teams_router \cup players_router \cup matches_router \cup events_router
        \cup stats_router \cup venues_router

RouteOf(name) == CHOOSE route \in Routes : route.name = name

\* The handlers whose own parameters carry bounds (page, page_size, limit).
BoundedRoutes ==
    {"get_teams", "get_team_matches", "get_players", "get_player_matches",
     "get_matches", "get_events", "get_venue_matches", "get_goal_leaders",
     "get_assist_leaders", "get_clean_sheet_leaders"}

\* A resource request: where it is, its route, whether its path and query
\* parameters pass the validation of the route, the database calls its
\* handler has issued, how many of them raised, and the status of its
\* response.
IdleHandler ==
    [pc |-> "idle", route |-> "", valid |-> TRUE, queries |-> 0, raised |-> 0,
     status |-> 0]

\* The dependencies of the route are solved: verify_api_key, where the route
\* names it, has returned an identity for this request.
DependenciesSolved ==
    "verify_api_key" \in RouteOf(handler.route).dependencies
        => req[1].pc = "done" /\ req[1].op = "verify" /\ req[1].resp.status = 200

\* A request is routed to a resource route.
RouteRequest(route, valid) ==
    /\ handler.pc = "idle"
    /\ valid \/ route.name \in BoundedRoutes
    /\ handler' = [handler EXCEPT !.pc = "deps", !.route = route.name,
                                  !.valid = valid]
    /\ UNCHANGED <<api_keys, req, clock, pager, query, pool>>

\* The dependency of the route is called with the X-API-Key header of the
\* request, before the handler.
SolveDependencies(api_key) ==
    /\ handler.pc = "deps"
    /\ "verify_api_key" \in RouteOf(handler.route).dependencies
    /\ VerifyApiKey(1, api_key)

\* verify_api_key raised: the response is its HTTPException (or the server
\* error of an exception it did not catch), the handler is not called.
Forbidden ==
    /\ handler.pc = "deps"
    /\ req[1].pc = "done" /\ req[1].resp.status # 200
    /\ handler' = [handler EXCEPT !.pc = "done", !.status = req[1].resp.status]
    /\ UNCHANGED <<api_keys, req, clock, pager, query, pool>>

\* The dependencies are solved and then the parameters of the route are
\* validated: a page, page_size or limit out of its bounds is answered with
\* 422 and the handler is not called.
Unprocessable ==
    /\ handler.pc = "deps"
    /\ DependenciesSolved
    /\ ~handler.valid
    /\ handler' = [handler EXCEPT !.pc = "done", !.status = 422]
    /\ UNCHANGED <<api_keys, req, clock, pager, query, pool>>

\* The handler is called.
RunEndpoint ==
    /\ handler.pc = "deps"
    /\ DependenciesSolved
    /\ handler.valid
    /\ handler' = [handler EXCEPT !.pc = "run"]
    /\ UNCHANGED <<api_keys, req, clock, pager, query, pool>>

\* The handler awaits its next call of database_pool.
DatabaseCall ==
    /\ handler.pc = "run"
    /\ handler.queries < RouteOf(handler.route).db_calls
    /\ handler' = [handler EXCEPT !.queries = handler.queries + 1]
    /\ UNCHANGED <<api_keys, req, clock, pager, query, pool>>

\* As DatabaseCallRaises, had the handler caught the error and gone on.
DatabaseCallGoesOn ==
    /\ handler.pc = "run"
    /\ handler.queries < RouteOf(handler.route).db_calls
    /\ handler' = [handler EXCEPT !.queries = handler.queries + 1,
                                  !.raised = handler.raised + 1]
    /\ UNCHANGED <<api_keys, req, clock, pager, query, pool>>

\* The next call of database_pool raises. No handler of a resource router
\* catches it: the request ends with the server error.
DatabaseCallRaises ==
    /\ handler.pc = "run"
    /\ handler.queries < RouteOf(handler.route).db_calls
    /\ handler' = [handler EXCEPT !.pc = "done", !.status = 500,
                                  !.queries = handler.queries + 1,
                                  !.raised = handler.raised + 1]
    /\ UNCHANGED <<api_keys, req, clock, pager, query, pool>>

\* The call found no row and the handler raises 404.
NotFound ==
    /\ handler.pc = "run"
    /\ handler.queries \in RouteOf(handler.route).not_found
    /\ handler' = [handler EXCEPT !.pc = "done", !.status = 404]
    /\ UNCHANGED <<api_keys, req, clock, pager, query, pool>>

\* The handler returns its result after its last call.
Respond ==
    /\ handler.pc = "run"
    /\ handler.queries = RouteOf(handler.route).db_calls
    /\ handler' = [handler EXCEPT !.pc = "done", !.status = 200]
    /\ UNCHANGED <<api_keys, req, clock, pager, query, pool>>

\* The tables a resource request may find: no key, one key, one revoked key.
StoredKeys ==
    {<<>>}
        \cup {<<NewRow(1, generate_api_key(p), "demo", "a@b.com", 1)>> : p \in RandomParts}
        \cup {<<RevokeSet(NewRow(1, generate_api_key(p), "demo", "a@b.com", 1))>> :
                 p \in RandomParts}

(* ------------------------- query-building handlers -------------------- *)

MAX_PAGE_SIZE == 1000

\* An optional filter of a handler: the query parameter and its type, the text
\* of the predicate "if <param>:" appends around each "${param_count}", and
\* whether the bound value is f"%{value}%".
Filter(param, type, pieces, like) ==
    [param |-> param, type |-> type, mode |-> "append", pieces |-> pieces,
     like |-> like]

Asc(col) == [col |-> col, desc |-> FALSE]

Desc(col) == [col |-> col, desc |-> TRUE]

\* A handler that builds its query: the path parameters it binds first, the
\* predicates its WHERE clause always has, its optional filters in the order
\* of their "if", the columns of its ORDER BY, the le= bound of its page_size
\* (0: the handler takes no page and page_size), and whether it first looks
\* the row of its path parameter up and raises 404 without it.
Handler(name, path, base, filters, order_by, le, lookup) ==
    [name |-> name, path |-> path, base |-> base, filters |-> filters,
     order_by |-> order_by, le |-> le, lookup |-> lookup]

get_teams ==
    Handler("get_teams", <<>>, <<>>,
            <<Filter("search", "str",
                     <<"team_name ILIKE ", " OR team_name_long ILIKE ", "">>, TRUE)>>,
            <<Asc("team_name")>>, MAX_PAGE_SIZE, FALSE)

get_team_matches ==
    Handler("get_team_matches", <<"team_id">>,
            <<"(mr.home_teams_id = $1 OR mr.away_teams_id = $1)">>,
            <<Filter("season", "int", <<"mr.season_id = ", "">>, FALSE)>>,
            <<Desc("match_date")>>, MAX_PAGE_SIZE, FALSE)

get_players ==
    Handler("get_players", <<>>, <<>>,
            <<Filter("search", "str", <<"player_name ILIKE ", "">>, TRUE),
              Filter("position", "str", <<"position ILIKE ", "">>, TRUE),
              Filter("nationality", "str", <<"nationality ILIKE ", "">>, TRUE)>>,
            <<Asc("player_name")>>, MAX_PAGE_SIZE, FALSE)

get_player_matches ==
    Handler("get_player_matches", <<"player_id">>, <<"ml.player_id = $1">>,
            <<Filter("season", "int", <<"ml.season_id = ", "">>, FALSE)>>,
            <<Desc("match_date")>>, 200, FALSE)

get_matches ==
    Handler("get_matches", <<>>, <<>>,
            <<Filter("season", "int", <<"mr.season_id = ", "">>, FALSE),
              Filter("team_id", "str",
                     <<"(mr.home_teams_id = ", " OR mr.away_teams_id = ", ")">>, FALSE),
              Filter("start_date", "date", <<"mr.match_date >= ", "">>, FALSE),
              Filter("end_date", "date", <<"mr.match_date <= ", "">>, FALSE)>>,
            <<Desc("match_date"), Desc("time")>>, MAX_PAGE_SIZE, FALSE)

get_events ==
    Handler("get_events", <<>>, <<>>,
            <<Filter("event_type", "str", <<"me.type = ", "">>, FALSE),
              Filter("season", "int", <<"me.season_id = ", "">>, FALSE),
              Filter("team_id", "str", <<"me.team_uuid = ", "">>, FALSE),
              Filter("player_id", "str",
                     <<"(me.goal_player_id = ", " OR me.assist_player_id = ",
                       " OR me.card_player_id = ", " OR me.substitution_in_player_id = ",
                       " OR me.substitution_out_player_id = ", ")">>, FALSE)>>,
            <<Desc("match_date"), Asc("minute")>>, MAX_PAGE_SIZE, FALSE)

get_goals ==
    Handler("get_goals", <<>>, <<"type = 'goal'">>,
            <<Filter("season", "int", <<"season_id = ", "">>, FALSE),
              Filter("player_id", "str", <<"goal_player_id = ", "">>, FALSE),
              Filter("team_id", "str", <<"team_uuid = ", "">>, FALSE)>>,
            <<Desc("match_date"), Asc("minute")>>, 0, FALSE)

\* "if card_type:" puts the value into the text of a predicate that takes the
\* place of the list built so far.
get_cards ==
    Handler("get_cards", <<>>, <<"(type = 'yellow_card' OR type = 'red_card')">>,
            <<[param |-> "card_type", type |-> "str", mode |-> "replace",
               pieces |-> <<"type = '", "_card'">>, like |-> FALSE],
              Filter("season", "int", <<"season_id = ", "">>, FALSE),
              Filter("player_id", "str", <<"card_player_id = ", "">>, FALSE)>>,
            <<Desc("match_date"), Asc("minute")>>, 0, FALSE)

get_venues ==
    Handler("get_venues", <<>>, <<>>,
            <<Filter("search", "str", <<"(name ILIKE ", " OR city ILIKE ", ")">>, TRUE),
              Filter("state", "str", <<"state = ", "">>, FALSE)>>,
            <<Asc("name")>>, 0, FALSE)

get_venue_matches ==
    Handler("get_venue_matches", <<"venue_id">>, <<"mr.venue_id = $1">>,
            <<Filter("season", "int", <<"mr.season_id = ", "">>, FALSE)>>,
            <<Desc("match_date")>>, 200, TRUE)

Handlers ==
    {get_teams, get_team_matches, get_players, get_player_matches, get_matches,
     get_events, get_goals, get_cards, get_venues, get_venue_matches}

HandlerOf(name) == CHOOSE h \in Handlers : h.name = name

(* ------------------------------ WHERE clause -------------------------- *)

\* Values of a query parameter of each type (NULL: the parameter is not in
\* the query string).
ArgValues(type) ==
    CASE type = "int" -> {NULL, Some(0), Some(2024)}
      [] type = "str" -> {NULL, Some(""), Some("x"), Some("y")}
      [] type = "date" -> {NULL, Some("2024-03-16")}

\* The values of the filters fs of one request, in the order of fs.
RECURSIVE ArgsOf(_)
ArgsOf(fs) ==
    IF fs = <<>>
    THEN {<<>>}
    ELSE {<<v>> \o rest : v \in ArgValues(Head(fs).type), rest \in ArgsOf(Tail(fs))}

\* The value of a path parameter.
PathValue == "7f3a"

\* Python's truth value of an Optional parameter: of None, 0 and "" it is
\* False.
Truthy(type, v) ==
    /\ v # NULL
    /\ CASE type = "int" -> v[1] # 0
         [] type = "str" -> v[1] # ""
         [] OTHER -> TRUE

\* The text of a predicate: its pieces with x at each place of the placeholder.
RECURSIVE Render(_, _)
Render(pieces, x) ==
    IF Len(pieces) = 1
    THEN pieces[1]
    ELSE pieces[1] \o x \o Render(Tail(pieces), x)

\* One "if <param>:" block of a handler, on the lists built so far.
ApplyFilter(f, v, built) ==
    IF ~Truthy(f.type, v)
    THEN built
    ELSE IF f.mode = "replace"
    THEN [built EXCEPT !.where_clauses = <<Render(f.pieces, v[1])>>]
    ELSE [where_clauses |->
              Append(built.where_clauses,
                     Render(f.pieces, "$" \o ToString(Len(built.params) + 1))),
          params |->
              Append(built.params, IF f.like THEN "%" \o v[1] \o "%" ELSE v[1])]

\* The "if" blocks of the filters fs, in order.
RECURSIVE ApplyFilters(_, _, _)
ApplyFilters(fs, args, built) ==
    IF fs = <<>>
    THEN built
    ELSE ApplyFilters(Tail(fs), Tail(args), ApplyFilter(Head(fs), Head(args), built))

\* where_clauses and params of handler h for the filter values args, before
\* the handler adds page_size and offset.
BuildWhere(h, args) ==
    ApplyFilters(h.filters, args,
                 [where_clauses |-> h.base,
                  params |-> [i \in DOMAIN h.path |-> PathValue]])

\* " AND ".join(where_clauses)
RECURSIVE JoinAnd(_)
JoinAnd(clauses) ==
    IF Len(clauses) = 1
    THEN clauses[1]
    ELSE clauses[1] \o " AND " \o JoinAnd(Tail(clauses))

\* The WHERE part of the handler's statements. Without a predicate get_teams
\* writes no WHERE part and the handlers that join a list write "1=1".
WhereClause(h, where_clauses) ==
    IF where_clauses = <<>>
    THEN IF h.name = "get_teams" THEN "" ELSE " WHERE 1=1"
    ELSE " WHERE " \o JoinAnd(where_clauses)

\* The ORDER BY part of the handler's row query.
RECURSIVE OrderText(_)
OrderText(order_by) ==
    LET first == Head(order_by).col \o (IF Head(order_by).desc THEN " DESC" ELSE "")
    IN  IF Len(order_by) = 1
        THEN first
        ELSE first \o ", " \o OrderText(Tail(order_by))

\* The LIMIT part of the row query of a handler that takes page and page_size.
LimitClause(h, params) ==
    IF h.le > 0
    THEN " LIMIT $" \o ToString(Len(params) + 1)
             \o " OFFSET $" \o ToString(Len(params) + 2)
    ELSE ""

\* The text of the handler's row query. The select list and the joined tables
\* are fixed text of the handler and are written "SELECT * FROM t".
RowQuery(h, built) ==
    "SELECT * FROM t" \o WhereClause(h, built.where_clauses)
        \o " ORDER BY " \o OrderText(h.order_by)
        \o LimitClause(h, built.params)

DEFAULT_PAGE_SIZE == 100

\* The values the handler passes with its row query: params, extended by
\* page_size and offset where the handler takes them (here of the first page
\* of the default size).
RowParams(h, built) ==
    IF h.le > 0
    THEN built.params \o <<DEFAULT_PAGE_SIZE, 0>>
    ELSE built.params

IdleQuery ==
    [site |-> "", args |-> <<>>, where_clauses |-> <<>>, params |-> <<>>,
     sql |-> "", bound |-> <<>>, limit |-> 0, offset |-> 0]

\* A handler builds the WHERE clause and the row query of a request.
BuildQuery(h, args) ==
    /\ query.site = ""
    /\ query' = [site |-> h.name, args |-> args,
                 sql |-> RowQuery(h, BuildWhere(h, args)),
                 bound |-> RowParams(h, BuildWhere(h, args)),
                 limit |-> IF h.le > 0 THEN DEFAULT_PAGE_SIZE ELSE 0,
                 offset |-> 0]
                    @@ BuildWhere(h, args)
    /\ UNCHANGED <<api_keys, req, clock, handler, pager, pool>>

(* ------------------------------ leaderboards -------------------------- *)

\* A leaderboard handler of the stats router and the columns of its ORDER BY.
Leaderboard(name, order_by) == [name |-> name, order_by |-> order_by]

get_goal_leaders == Leaderboard("get_goal_leaders", <<Desc("goals")>>)

get_assist_leaders == Leaderboard("get_assist_leaders", <<Desc("assists")>>)

get_clean_sheet_leaders ==
    Leaderboard("get_clean_sheet_leaders",
                <<Desc("clean_sheets"), Desc("matches_played")>>)

Leaderboards == {get_goal_leaders, get_assist_leaders, get_clean_sheet_leaders}

\* Values of the limit query parameter: Query(10, ge=1, le=100).
Limits == {0, 1, 10, 100, 101}

ValidLimit(limit) == limit >= 1 /\ limit <= 100

\* The statement and the values of get_goal_leaders.
goal_leaders_query(season, limit) ==
    LET params == IF Truthy("int", season) THEN <<season[1]>> ELSE <<>>
        season_filter == IF Truthy("int", season) THEN "WHERE season_id = $1" ELSE ""
    IN [sql |-> "SELECT * FROM match_event me"
                   \o " WHERE type = 'goal' AND goal_player_id IS NOT NULL "
                   \o (IF params # <<>> THEN season_filter ELSE "") \o " "
                   \o (IF params # <<>> THEN "AND" ELSE "WHERE")
                   \o " me.season_id = $"
                   \o ToString(IF params = <<>> THEN Len(params) + 1 ELSE 2)
                   \o " GROUP BY goal_player_id ORDER BY goals DESC LIMIT $"
                   \o ToString(IF params # <<>> THEN Len(params) + 1 ELSE 1),
        bound |-> (IF ~Truthy("int", season) THEN Append(params, 2025) ELSE params)
                      \o <<limit>>]

\* The statement and the values of get_assist_leaders.
assist_leaders_query(season, limit) ==
    LET params == IF Truthy("int", season) THEN <<season[1]>> ELSE <<>>
        season_filter == IF Truthy("int", season) THEN "AND season_id = $1" ELSE ""
    IN [sql |-> "SELECT * FROM match_event me WHERE assist_player_id IS NOT NULL "
                   \o season_filter
                   \o " GROUP BY assist_player_id ORDER BY assists DESC LIMIT $"
                   \o ToString(Len(params) + 1),
        bound |-> Append(params, limit)]

\* The statement and the values of get_clean_sheet_leaders.
clean_sheet_leaders_query(season, limit) ==
    LET params == IF Truthy("int", season) THEN <<season[1]>> ELSE <<>>
        season_filter == IF Truthy("int", season) THEN "WHERE mg.season_id = $1" ELSE ""
    IN [sql |-> "SELECT * FROM match_goalkeeper mg " \o season_filter
                   \o " GROUP BY mg.player_id HAVING COUNT(*) >= 5"
                   \o " ORDER BY clean_sheets DESC, matches_played DESC LIMIT $"
                   \o ToString(Len(params) + 1),
        bound |-> Append(params, limit)]

LeaderQuery(name, season, limit) ==
    CASE name = "get_goal_leaders" -> goal_leaders_query(season, limit)
      [] name = "get_assist_leaders" -> assist_leaders_query(season, limit)
      [] name = "get_clean_sheet_leaders" -> clean_sheet_leaders_query(season, limit)

\* A leaderboard handler builds its statement.
BuildLeaderboard(l, season, limit) ==
    /\ query.site = ""
    /\ ValidLimit(limit)
    /\ query' = [IdleQuery EXCEPT !.site = l.name, !.args = <<season>>,
                                  !.sql = LeaderQuery(l.name, season, limit).sql,
                                  !.bound = LeaderQuery(l.name, season, limit).bound,
                                  !.limit = limit]
    /\ UNCHANGED <<api_keys, req, clock, handler, pager, pool>>

(* ------------------------- statements at the database ----------------- *)

\* The places of a statement where text starts.
Occurrences(sql, text) ==
    {i \in 1..(Len(sql) - Len(text) + 1) : SubSeq(sql, i, i + Len(text) - 1) = text}

Digits == "0123456789"

IsDigit(c) == \E d \in 1..10 : SubSeq(Digits, d, d) = c

DigitValue(c) == (CHOOSE d \in 1..10 : SubSeq(Digits, d, d) = c) - 1

\* The number whose digits start at place i of the statement.
RECURSIVE NumberAt(_, _, _)
NumberAt(sql, i, acc) ==
    IF i <= Len(sql) /\ IsDigit(SubSeq(sql, i, i))
    THEN NumberAt(sql, i + 1, acc * 10 + DigitValue(SubSeq(sql, i, i)))
    ELSE acc

\* The indices of the placeholders $n that follow text in the statement.
PlaceholdersAfter(sql, text) ==
    {NumberAt(sql, i + Len(text) + 1, 0) : i \in Occurrences(sql, text \o "$")}

\* The indices of all placeholders of the statement.
Placeholders(sql) == PlaceholdersAfter(sql, "")

\* The database prepares and runs a statement with the values bound: it
\* raises for a query with a second WHERE keyword (a syntax error) and for a
\* number of values that is not the number of parameters of the statement.
Executes(sql, bound) ==
    /\ Cardinality(Occurrences(sql, "WHERE")) <= 1
    /\ Placeholders(sql) = 1..Len(bound)

(* ------------------------------ pagination ---------------------------- *)

\* Number of rows the WHERE clause of a list request selects.
MaxRows == 3

\* Values of a column of the ORDER BY (rows may tie on it).
SortValues == {1, 2}

\* Values of the page and page_size query parameters.
Pages == 0..(MaxRows + 2)

PageSizes == {0, 1, 2, 3, 200, 201, MAX_PAGE_SIZE, MAX_PAGE_SIZE + 1}

PaginatedHandlers == {h \in Handlers : h.le > 0}

OrderColumns(h) == {h.order_by[i].col : i \in DOMAIN h.order_by}

\* The rows a request of handler h may select from the static table, in the
\* order they are stored: each with its id and its ORDER BY columns.
SelectedRows(h) ==
    UNION {{[i \in 1..n |->
                [c \in OrderColumns(h) \cup {"id"} |->
                    IF c = "id" THEN i ELSE v[i][c]]] :
              v \in [1..n -> [OrderColumns(h) -> SortValues]]} : n \in 0..MaxRows}

\* Row a comes before row b in ORDER BY order_by.
RECURSIVE Before(_, _, _)
Before(a, b, order_by) ==
    IF order_by = <<>>
    THEN FALSE
    ELSE LET o == Head(order_by)
         IN IF a[o.col] = b[o.col]
            THEN Before(a, b, Tail(order_by))
            ELSE IF o.desc THEN a[o.col] > b[o.col] ELSE a[o.col] < b[o.col]

\* The orders in which the database may return rows under ORDER BY order_by:
\* rows that tie on all its columns come in any order.
OrderBy(rows, order_by) ==
    {[k \in DOMAIN rows |-> rows[perm[k]]] :
        perm \in {f \in [DOMAIN rows -> DOMAIN rows] :
                     /\ \A a, b \in DOMAIN rows : a # b => f[a] # f[b]
                     /\ \A a, b \in DOMAIN rows :
                           a < b => ~Before(rows[f[b]], rows[f[a]], order_by)}}

\* The page queries of the paginated handlers: the handler, the rows its
\* WHERE clause selects, and an order the database may return them in.
PageQueries ==
    UNION {UNION {{<<h.name, selected, sorted>> :
                      sorted \in OrderBy(selected, h.order_by)} :
                  selected \in SelectedRows(h)} : h \in PaginatedHandlers}

\* LIMIT limit OFFSET off of the ordered rows.
LimitOffset(sorted, limit, off) ==
    [k \in 1..(IF off >= Len(sorted) THEN 0
               ELSE IF Len(sorted) - off < limit THEN Len(sorted) - off
               ELSE limit) |-> sorted[off + k]]

\* As offset, had the handler counted pages from 0.
offsetFromZero(page, page_size) == page * page_size

\* offset = (page - 1) * page_size
offset(page, page_size) == (page - 1) * page_size

\* As total_pages, had the handler rounded down.
total_pagesFloor(total, page_size) == total \div page_size

\* "total_pages": (total + page_size - 1) // page_size
total_pages(total, page_size) == (total + page_size - 1) \div page_size

\* Query(1, ge=1) of page and Query(..., ge=1, le=...) of page_size.
ValidQuery(h, page, page_size) == page >= 1 /\ page_size >= 1 /\ page_size <= h.le

IdlePager ==
    [pc |-> "idle", endpoint |-> "", selected |-> <<>>, page |-> 0, page_size |-> 0,
     status |-> 0, limit |-> 0, offset |-> 0, rows |-> <<>>, total |-> 0,
     total_pages |-> 0, first |-> 0, seen |-> <<>>, keys |-> {}]

\* The keys of the "pagination" object of a paginated handler's response.
PaginationKeys == {"total", "page", "page_size", "total_pages"}

\* The answer of handler h to a request for a page: 422 when page or
\* page_size is out of its bounds; 404 when the handler looks its path row up
\* and finds none; otherwise the count query, the page query (sorted is the
\* order the database returns the selected rows in) and the pagination
\* envelope.
ListResponse(h, found, selected, page, page_size, sorted) ==
    IF ~ValidQuery(h, page, page_size)
    THEN [IdlePager EXCEPT !.pc = "done", !.endpoint = h.name, !.selected = selected,
                           !.page = page, !.page_size = page_size, !.status = 422]
    ELSE IF h.lookup /\ ~found
    THEN [IdlePager EXCEPT !.pc = "done", !.endpoint = h.name, !.selected = selected,
                           !.page = page, !.page_size = page_size, !.status = 404]
    ELSE [IdlePager EXCEPT !.pc = "done", !.endpoint = h.name, !.selected = selected,
                           !.page = page, !.page_size = page_size, !.status = 200,
                           !.limit = page_size, !.offset = offset(page, page_size),
                           !.rows = LimitOffset(sorted, page_size, offset(page, page_size)),
                           !.total = Len(selected),
                           !.total_pages = total_pages(Len(selected), page_size),
                           !.keys = PaginationKeys]

\* A client requests a page of a list endpoint with some page and page_size.
GetPage ==
    /\ pager.pc = "idle"
    /\ \E q \in PageQueries, page \in Pages, page_size \in PageSizes, found \in BOOLEAN :
          LET resp == ListResponse(HandlerOf(q[1]), found, q[2], page, page_size, q[3])
          IN pager' = [resp EXCEPT !.first = page, !.seen = resp.rows]
    /\ UNCHANGED <<api_keys, req, clock, handler, query, pool>>

\* The client requests the page after the one it got, with the same filters
\* and page_size, and puts its rows after those it has (the table is static:
\* a path row that was found is found again).
GetNextPage ==
    /\ pager.pc = "done" /\ pager.status = 200
    /\ pager.page < pager.total_pages
    /\ LET h == HandlerOf(pager.endpoint)
       IN \E sorted \in OrderBy(pager.selected, h.order_by) :
             LET resp == ListResponse(h, TRUE, pager.selected, pager.page + 1,
                                      pager.page_size, sorted)
             IN pager' = [resp EXCEPT !.first = pager.first,
                                      !.seen = pager.seen \o resp.rows]
    /\ UNCHANGED <<api_keys, req, clock, handler, query, pool>>

UnpaginatedHandlers == {h \in Handlers : h.le = 0}

\* Values of page and page_size in the query string of a request to a handler
\* that has no such parameter.
ExtraPages == {1, 2}

ExtraPageSizes == {1, MaxRows}

\* The row queries of the list handlers without LIMIT.
ListQueries ==
    UNION {UNION {{<<h.name, selected, sorted>> :
                      sorted \in OrderBy(selected, h.order_by)} :
                  selected \in SelectedRows(h)} : h \in UnpaginatedHandlers}

\* A client requests get_venues, get_goals or get_cards. The handler has no
\* page and page_size parameter (the values of the query string are
\* ignored), runs one row query without LIMIT and returns all the rows with
\* "total": len(rows).
GetList ==
    /\ pager.pc = "idle"
    /\ \E q \in ListQueries, page \in ExtraPages, page_size \in ExtraPageSizes :
          pager' = [IdlePager EXCEPT !.pc = "done", !.endpoint = q[1],
                                     !.selected = q[2], !.page = page,
                                     !.page_size = page_size, !.status = 200,
                                     !.rows = q[3], !.total = Len(q[3]),
                                     !.keys = {"total"}]
    /\ UNCHANGED <<api_keys, req, clock, handler, query, pool>>

\* The row queries of the leaderboard handlers.
LeaderQueries ==
    UNION {UNION {{<<l.name, selected, sorted>> :
                      sorted \in OrderBy(selected, l.order_by)} :
                  selected \in SelectedRows(l)} : l \in Leaderboards}

\* A client requests a leaderboard. The handler has a limit parameter and no
\* page and page_size parameter; it answers 422 for a limit out of its
\* bounds, the database's error surfaces as 500, and otherwise it returns
\* {"season", "leaderboard"} with the first limit rows.
GetLeaderboard ==
    /\ pager.pc = "idle"
    /\ \E q \in LeaderQueries, season \in ArgValues("int"), limit \in Limits,
          page \in ExtraPages, page_size \in ExtraPageSizes :
          LET stmt == LeaderQuery(q[1], season, limit)
              sent == [IdlePager EXCEPT !.pc = "done", !.endpoint = q[1],
                                        !.selected = q[2], !.page = page,
                                        !.page_size = page_size]
          IN pager' = IF ~ValidLimit(limit)
                      THEN [sent EXCEPT !.status = 422]
                      ELSE IF ~Executes(stmt.sql, stmt.bound)
                      THEN [sent EXCEPT !.status = 500]
                      ELSE [sent EXCEPT !.status = 200, !.limit = limit,
                                        !.rows = LimitOffset(q[3], limit, 0),
                                        !.keys = {"season", "leaderboard"}]
    /\ UNCHANGED <<api_keys, req, clock, handler, query, pool>>

(* ---------------------------- connection pool ------------------------- *)

\* Number of requests in flight at once.
MaxTasks == 3

Tasks == 1..MaxTasks

\* max_size of the pool, in the scale of the model: the requests in flight
\* outnumber the connections.
max_size == MaxTasks - 1

\* The numbers of calls of database_pool a handler awaits, one after the
\* other (get_match: one; get_match_lineups: two).
CallCounts == {1, 2}

\* A request at the pool: where it is, the calls it has ended and the calls of
\* its handler, the connections it holds, and the status of its response.
IdleTask == [pc |-> "idle", calls |-> 0, total |-> 0, holds |-> 0, status |-> 0]

\* The pool: the connections acquired and not released, and the requests.
IdlePool == [in_use |-> 0, task |-> [t \in Tasks |-> IdleTask]]

\* A request reaches a handler that awaits n calls; the handler runs to its
\* first call, where "async with self.pool.acquire()" waits for a connection.
StartRequest(t, n) ==
    /\ pool.task[t].pc = "idle"
    /\ pool' = [pool EXCEPT !.task[t].pc = "wait", !.task[t].total = n]
    /\ UNCHANGED <<api_keys, req, clock, handler, pager, query>>

\* The pool hands a connection that is not in use to a waiting request, which
\* sends its statement.
Acquire(t) ==
    /\ pool.task[t].pc = "wait"
    /\ pool.in_use < max_size
    /\ pool' = [pool EXCEPT !.in_use = @ + 1, !.task[t].pc = "call",
                            !.task[t].holds = @ + 1]
    /\ UNCHANGED <<api_keys, req, clock, handler, pager, query>>

\* The statement returns and the "async with" block is left: the connection
\* goes back to the pool, and the handler runs to its next call or, after its
\* last call, returns.
CallReturns(t) ==
    /\ pool.task[t].pc = "call"
    /\ pool' = [pool EXCEPT !.in_use = @ - 1, !.task[t].holds = @ - 1,
                            !.task[t].calls = @ + 1,
                            !.task[t].pc =
                                IF pool.task[t].calls + 1 < pool.task[t].total
                                THEN "wait" ELSE "done",
                            !.task[t].status =
                                IF pool.task[t].calls + 1 < pool.task[t].total
                                THEN 0 ELSE 200]
    /\ UNCHANGED <<api_keys, req, clock, handler, pager, query>>

\* As CallRaises, had the connection stayed with the request when the
\* statement raised.
CallRaisesHolding(t) ==
    /\ pool.task[t].pc = "call"
    /\ pool' = [pool EXCEPT !.task[t].pc = "done", !.task[t].calls = @ + 1,
                            !.task[t].status = 500]
    /\ UNCHANGED <<api_keys, req, clock, handler, pager, query>>

\* The statement raises: the "async with" block is left by the exception,
\* the connection goes back to the pool and the request ends with the server
\* error.
CallRaises(t) ==
    /\ pool.task[t].pc = "call"
    /\ pool' = [pool EXCEPT !.in_use = @ - 1, !.task[t].pc = "done",
                            !.task[t].holds = @ - 1, !.task[t].calls = @ + 1,
                            !.task[t].status = 500]
    /\ UNCHANGED <<api_keys, req, clock, handler, pager, query>>

(* ---------------------------- specification --------------------------- *)

Init ==
    /\ api_keys = <<>>
    /\ req = [r \in Reqs |-> IdleReq]
    /\ clock = 0
    /\ handler = IdleHandler
    /\ pager = IdlePager
    /\ query = IdleQuery
    /\ pool = IdlePool

Next ==
    \/ \E r \in Reqs, body \in Registrations, p \in RandomParts :
          RegisterForApiKey(r, body[1], body[2], p)
    \/ \E r \in Reqs : CreateApiKey(r)
    \/ \E r \in Reqs, k \in PresentedKeys : VerifyApiKey(r, k)
    \/ \E r \in Reqs : ValidateApiKey(r)
    \/ \E r \in Reqs, email \in Emails : GetMyKeys(r, email)
    \/ \E r \in Reqs, id \in KeyIds, email \in Emails : DeleteApiKey(r, id, email)

Spec == Init /\ [][Next]_vars

\* One request to a resource route, with some table of keys stored.
ProtectedInit ==
    /\ api_keys \in StoredKeys
    /\ req = [r \in Reqs |-> IdleReq]
    /\ clock = 1
    /\ handler = IdleHandler
    /\ pager = IdlePager
    /\ query = IdleQuery
    /\ pool = IdlePool

ProtectedNext ==
    \/ \E route \in Routes, valid \in BOOLEAN : RouteRequest(route, valid)
    \/ \E k \in PresentedKeys : SolveDependencies(k)
    \/ ValidateApiKey(1)
    \/ Forbidden
    \/ Unprocessable
    \/ RunEndpoint
    \/ DatabaseCall
    \/ NotFound
    \/ Respond

ProtectedSpec == ProtectedInit /\ [][ProtectedNext]_vars

\* A resource request and a registration while statements may fail at the
\* database.
FaultNext ==
    \/ ProtectedNext
    \/ ValidateApiKeyRaises(1)
    \/ DatabaseCallRaises
    \/ \E body \in Registrations, p \in RandomParts :
          RegisterForApiKey(2, body[1], body[2], p)
    \/ CreateApiKey(2)
    \/ CreateApiKeyRaises(2)

FaultSpec == ProtectedInit /\ [][FaultNext]_vars

\* A client pages through a list endpoint over a static table.
PageNext ==
    \/ GetPage
    \/ GetNextPage

PageSpec == Init /\ [][PageNext]_vars

\* Handlers build the WHERE clauses of requests.
QueryNext ==
    \/ \E h \in Handlers : \E args \in ArgsOf(h.filters) : BuildQuery(h, args)
    \/ \E l \in Leaderboards, season \in ArgValues("int"), limit \in Limits :
          BuildLeaderboard(l, season, limit)

QuerySpec == Init /\ [][QueryNext]_vars

\* A client requests some list endpoint once.
ListNext == GetPage \/ GetList \/ GetLeaderboard

ListSpec == Init /\ [][ListNext]_vars

\* Requests in flight share the connections of the pool.
PoolNext ==
    \E t \in Tasks :
        \/ \E n \in CallCounts : StartRequest(t, n)
        \/ Acquire(t)
        \/ CallReturns(t)
        \/ CallRaises(t)

PoolSpec == Init /\ [][PoolNext]_vars

\* The event loop runs every coroutine that can run, a statement ends
\* (command_timeout), and the pool is fair: a request that waits while
\* connections come free again and again gets one.
FairPoolSpec ==
    /\ PoolSpec
    /\ \A t \in Tasks :
          /\ SF_vars(Acquire(t))
          /\ WF_vars(CallReturns(t) \/ CallRaises(t))

(* ----------------------------- properties ----------------------------- *)

\* Request r ends in this step, as a request of kind op.
Completes(r, op) == req[r].pc # "done" /\ req'[r].pc = "done" /\ req'[r].op = op

IsDone(r, op) == req[r].pc = "done" /\ req[r].op = op

\* The rows that hold the token key.
RowsOfKey(rows, key) == {i \in DOMAIN rows : rows[i].key = key}

Accepted(key) ==
    {r \in Reqs : IsDone(r, "verify") /\ req[r].api_key = key /\ req[r].resp.status = 200}

\* C2: in every interleaving of the requests, concurrent ones included, the
\* usage_count of a row (0 when the row is created) equals the number of
\* verifications accepted with its token: no increment is lost.
C2_NoLostIncrement ==
    \A i \in DOMAIN api_keys :
        api_keys[i].usage_count = Cardinality(Accepted(api_keys[i].key))

\* C2: two verifications of one key overlapped (the one that arrived first was
\* still waiting for the database when the second ran its UPDATE: it got the
\* larger count back) and the count grew by two.
C2_Witness ==
    \E r1, r2 \in Reqs : \E i \in DOMAIN api_keys :
        /\ r1 < r2
        /\ r1 \in Accepted(api_keys[i].key) /\ r2 \in Accepted(api_keys[i].key)
        /\ req[r1].resp.key_info[1].usage_count = 2
        /\ req[r2].resp.key_info[1].usage_count = 1
        /\ api_keys[i].usage_count = 2

\* C3: no step removes a row or lowers the usage_count of a row.
C3_UsageCountMonotone ==
    [][\A i \in DOMAIN api_keys :
          /\ i \in DOMAIN api_keys'
          /\ api_keys'[i].usage_count >= api_keys[i].usage_count]_vars

\* C3: a key that had been used was revoked, and kept its count.
C3_Witness ==
    \E r \in Reqs : \E i \in DOMAIN api_keys :
        /\ IsDone(r, "revoke") /\ req[r].resp.status = 200 /\ req[r].key_id = i
        /\ ~api_keys[i].is_active
        /\ api_keys[i].usage_count >= 1

\* The rows registered under the (email, name) pair.
RowsOfPair(rows, email, name) ==
    {i \in DOMAIN rows : rows[i].email = email /\ rows[i].name = name}

\* A verification that ends while a row of its token is active is accepted, as
\* the owner of that row.
AcceptedWhileActive ==
    \A r \in Reqs :
        (/\ Completes(r, "verify")
         /\ \E i \in RowsOfKey(api_keys, req'[r].api_key) : api_keys[i].is_active)
        => /\ req'[r].resp.status = 200
           /\ \E i \in RowsOfKey(api_keys, req'[r].api_key) :
                 /\ req'[r].resp.key_info[1].name = api_keys[i].name
                 /\ req'[r].resp.key_info[1].email = api_keys[i].email

\* C4 as stated: every registration of a pair that has no row succeeds and
\* returns its token, and a verification of a token whose row is active (from
\* its registration until its revocation) is accepted.
C4_AsStated ==
    [][/\ \A r \in Reqs :
            (/\ Completes(r, "register")
             /\ RowsOfPair(api_keys, req[r].email, req[r].name) = {})
            => /\ req'[r].resp.status = 200
               /\ req'[r].resp.api_key = req[r].api_key
       /\ AcceptedWhileActive]_vars

\* C4, amended: a registration of a pair that has no row either stores one new
\* active row and returns its token, or, when the drawn token is the token of a
\* stored row, ends 500 and stores nothing; and a verification of a token whose
\* row is active (from its registration until its revocation) is accepted.
C4_RegisteredKeyValidates ==
    [][/\ \A r \in Reqs :
            (/\ Completes(r, "register")
             /\ RowsOfPair(api_keys, req[r].email, req[r].name) = {})
            => \/ /\ RowsOfKey(api_keys, req[r].api_key) = {}
                  /\ req'[r].resp.status = 200
                  /\ req'[r].resp.api_key = req[r].api_key
                  /\ Len(api_keys') = Len(api_keys) + 1
                  /\ api_keys'[Len(api_keys')].key = req[r].api_key
                  /\ api_keys'[Len(api_keys')].is_active
               \/ /\ RowsOfKey(api_keys, req[r].api_key) # {}
                  /\ req'[r].resp.status = 500
                  /\ req'[r].resp.api_key = ""
                  /\ api_keys' = api_keys
       /\ AcceptedWhileActive]_vars

\* C4: a registration returned a token, and two later verifications of that
\* token were both accepted.
C4_Witness ==
    \E r1, r2, r3 \in Reqs :
        /\ r1 < r2 /\ r2 < r3
        /\ IsDone(r1, "register") /\ req[r1].resp.status = 200
        /\ IsDone(r2, "verify") /\ req[r2].api_key = req[r1].resp.api_key
        /\ req[r2].resp.status = 200
        /\ IsDone(r3, "verify") /\ req[r3].api_key = req[r1].resp.api_key
        /\ req[r3].resp.status = 200

\* C5: a registration of an (email, name) pair that has a row, active or
\* revoked, ends 400 and leaves the table as it was; no two rows ever hold the
\* same pair.
C5_DuplicatePairConflict ==
    [][/\ \A r \in Reqs :
            (/\ Completes(r, "register")
             /\ RowsOfPair(api_keys, req[r].email, req[r].name) # {})
            => /\ req'[r].resp.status = 400
               /\ req'[r].resp.api_key = ""
               /\ api_keys' = api_keys
       /\ \A i, j \in DOMAIN api_keys' :
            (api_keys'[i].email = api_keys'[j].email /\ api_keys'[i].name = api_keys'[j].name)
            => i = j]_vars

\* C5: a key was revoked, and a later registration of its pair ended 400.
C5_Witness ==
    \E r1, r2 \in Reqs : \E i \in DOMAIN api_keys :
        /\ r1 < r2
        /\ IsDone(r1, "revoke") /\ req[r1].resp.status = 200 /\ req[r1].key_id = i
        /\ ~api_keys[i].is_active
        /\ IsDone(r2, "register") /\ req[r2].resp.status = 400
        /\ req[r2].email = api_keys[i].email /\ req[r2].name = api_keys[i].name
        /\ Len(api_keys) = 1

\* C6: a revocation whose email is not the owner email of the row with its
\* key_id ends 404 and leaves every row as it was.
C6_ForeignRevocationFails ==
    [][\A r \in Reqs :
          (/\ Completes(r, "revoke")
           /\ \E i \in DOMAIN api_keys :
                 api_keys[i].id = req'[r].key_id /\ api_keys[i].email # req'[r].email)
          => /\ req'[r].resp.status = 404
             /\ api_keys' = api_keys]_vars

\* C6: a revocation with the email of another owner ended 404, and a later
\* verification of the key it aimed at was accepted.
C6_Witness ==
    \E r1, r2 \in Reqs : \E i \in DOMAIN api_keys :
        /\ r1 < r2
        /\ IsDone(r1, "revoke") /\ req[r1].key_id = i /\ req[r1].email # api_keys[i].email
        /\ req[r1].resp.status = 404
        /\ IsDone(r2, "verify") /\ req[r2].api_key = api_keys[i].key
        /\ req[r2].resp.status = 200

\* C7 as stated: no listing response holds the full token of a stored key.
C7_ListingOmitsSecret ==
    \A r \in Reqs :
        IsDone(r, "list") =>
            \A k \in DOMAIN req[r].resp.keys :
                RowsOfKey(api_keys, req[r].resp.keys[k].key) = {}

\* Revocation writes only is_active, only to FALSE, and only on rows whose id
\* and owner email are those of the request.
RevokesOnlyMatched(r) ==
    /\ DOMAIN api_keys' = DOMAIN api_keys
    /\ \A i \in DOMAIN api_keys :
          IF api_keys[i].id = req'[r].key_id /\ api_keys[i].email = req'[r].email
          THEN api_keys'[i] = [api_keys[i] EXCEPT !.is_active = FALSE]
          ELSE api_keys'[i] = api_keys[i]

\* C8 as stated: revocation changes only a row whose id and email match, and
\* succeeds exactly when it turned an active row inactive.
C8_AsStated ==
    [][\A r \in Reqs :
          Completes(r, "revoke")
          => /\ RevokesOnlyMatched(r)
             /\ req'[r].resp.status = 200
                  <=> \E i \in DOMAIN api_keys :
                         api_keys[i].is_active /\ ~api_keys'[i].is_active]_vars

\* C8, amended: revocation changes only a row whose id and email match, and
\* succeeds (200) exactly when such a row exists, whether it was active or
\* already revoked; otherwise it ends 404.
C8_RevokeResult ==
    [][\A r \in Reqs :
          Completes(r, "revoke")
          => /\ RevokesOnlyMatched(r)
             /\ req'[r].resp.status \in {200, 404}
             /\ req'[r].resp.status = 200
                  <=> \E i \in DOMAIN api_keys :
                         api_keys[i].id = req'[r].key_id /\ api_keys[i].email = req'[r].email]_vars

\* C8: a key was revoked twice by its owner, and both revocations succeeded.
C8_Witness ==
    \E r1, r2 \in Reqs :
        /\ r1 < r2
        /\ IsDone(r1, "revoke") /\ req[r1].resp.status = 200
        /\ IsDone(r2, "revoke") /\ req[r2].resp.status = 200
        /\ req[r1].key_id = req[r2].key_id /\ req[r1].email = req[r2].email

\* C9: no step removes a row or changes its id, key, name, email or
\* created_at; a revocation changes nothing but is_active; and a listing
\* returns every row of its email, revoked ones included, with its is_active.
C9_SoftDelete ==
    [][/\ \A i \in DOMAIN api_keys :
            /\ i \in DOMAIN api_keys'
            /\ api_keys'[i].id = api_keys[i].id
            /\ api_keys'[i].key = api_keys[i].key
            /\ api_keys'[i].name = api_keys[i].name
            /\ api_keys'[i].email = api_keys[i].email
            /\ api_keys'[i].created_at = api_keys[i].created_at
       /\ \A r \in Reqs :
            Completes(r, "revoke") =>
                /\ DOMAIN api_keys' = DOMAIN api_keys
                /\ \A i \in DOMAIN api_keys :
                      api_keys'[i] = [api_keys[i] EXCEPT !.is_active = api_keys'[i].is_active]
       /\ \A r \in Reqs :
            Completes(r, "list") =>
                \A i \in DOMAIN api_keys :
                    api_keys[i].email = req'[r].email =>
                        \E k \in DOMAIN req'[r].resp.keys :
                            /\ req'[r].resp.keys[k].id = api_keys[i].id
                            /\ req'[r].resp.keys[k].is_active = api_keys[i].is_active]_vars

\* C9: a listing that came after a revocation shows the revoked key, with
\* is_active false.
C9_Witness ==
    \E r1, r2 \in Reqs : \E i \in DOMAIN api_keys :
        /\ r1 < r2
        /\ IsDone(r1, "revoke") /\ req[r1].resp.status = 200 /\ req[r1].key_id = i
        /\ IsDone(r2, "list") /\ req[r2].resp.status = 200
        /\ \E k \in DOMAIN req[r2].resp.keys :
              req[r2].resp.keys[k].id = i /\ req[r2].resp.keys[k].is_active = FALSE

\* C10: no two rows, active or revoked, hold the same token, and the token a
\* registration returned is the token of exactly one row, whatever was drawn.
C10_KeysUnique ==
    /\ \A i, j \in DOMAIN api_keys : api_keys[i].key = api_keys[j].key => i = j
    /\ \A r \in Reqs :
          (IsDone(r, "register") /\ req[r].resp.status = 200)
          => Cardinality(RowsOfKey(api_keys, req[r].resp.api_key)) = 1

\* C10: a registration of a new pair drew the token of a stored key (of a
\* revoked one, here) and stored nothing.
C10_Witness ==
    \E r \in Reqs : \E i \in DOMAIN api_keys :
        /\ IsDone(r, "register") /\ req[r].resp.status = 500
        /\ api_keys[i].key = req[r].api_key
        /\ ~api_keys[i].is_active
        /\ RowsOfPair(api_keys, req[r].email, req[r].name) = {}

\* The active rows that hold the token key.
ActiveRowsOfKey(rows, key) == {i \in RowsOfKey(rows, key) : rows[i].is_active}

C12_DemoKey ==
    [][\A r \in Reqs :
          (Completes(r, "verify") /\ req'[r].api_key = DEMO_API_KEY) =>
             /\ req[r].pc = "idle"
             /\ req'[r].resp.status = 200
             /\ req'[r].resp.key_info =
                   Some([name |-> "Demo User", email |-> "demo@nwsl-api.com"])
             /\ api_keys' = api_keys
             /\ clock' = clock]_vars

\* C12: the demo token was accepted while the table held a revoked key.
C12_Witness ==
    \E r \in Reqs : \E i \in DOMAIN api_keys :
        /\ IsDone(r, "verify") /\ req[r].api_key = DEMO_API_KEY
        /\ req[r].resp.status = 200
        /\ ~api_keys[i].is_active

\* C14: a verification that the store accepts changes one row, the row of its
\* token: usage_count grows by exactly 1 and last_used becomes the time the
\* request read; every other column of that row, and every other row, stays.
C14_ValidationEffect ==
    [][\A r \in Reqs :
          (/\ Completes(r, "verify")
           /\ req'[r].resp.status = 200
           /\ req'[r].api_key # DEMO_API_KEY) =>
             \E i \in DOMAIN api_keys :
                /\ api_keys[i].key = req'[r].api_key
                /\ api_keys' = [api_keys EXCEPT ![i] =
                      [api_keys[i] EXCEPT !.usage_count = api_keys[i].usage_count + 1,
                                          !.last_used = Some(req[r].ts)]]]_vars

\* C14: of two stored keys one was validated: its count is 1 and its last_used
\* is set, and the other row is as it was stored.
C14_Witness ==
    \E i, j \in DOMAIN api_keys :
        /\ i # j
        /\ api_keys[i].usage_count = 1 /\ api_keys[i].last_used # NULL
        /\ api_keys[j].usage_count = 0 /\ api_keys[j].last_used = NULL
        /\ \E r \in Reqs : r \in Accepted(api_keys[i].key)

\* C15: a registration that ends 200 adds exactly one row, after the rows
\* there were and leaving them as they were: the row is active, has
\* usage_count 0 and no last_used, carries the name and email of the request,
\* and its key is the token the response returns.
C15_RegistrationEffect ==
    [][\A r \in Reqs :
          (Completes(r, "register") /\ req'[r].resp.status = 200) =>
             /\ Len(api_keys') = Len(api_keys) + 1
             /\ SubSeq(api_keys', 1, Len(api_keys)) = api_keys
             /\ LET row == api_keys'[Len(api_keys')]
                IN /\ row.is_active = TRUE
                   /\ row.usage_count = 0
                   /\ row.last_used = NULL
                   /\ row.name = req[r].name
                   /\ row.email = req[r].email
                   /\ row.key = req'[r].resp.api_key]_vars

\* C15: a second key was registered while the first had been used: two rows,
\* the first with its count of 1, the second new.
C15_Witness ==
    \E r1, r2 \in Reqs :
        /\ r1 # r2
        /\ IsDone(r1, "register") /\ req[r1].resp.status = 200
        /\ IsDone(r2, "register") /\ req[r2].resp.status = 200
        /\ Len(api_keys) = 2
        /\ api_keys[1].usage_count = 1
        /\ api_keys[2].usage_count = 0 /\ api_keys[2].is_active

\* C16: a listing for an email that owns no row ends 404; otherwise it ends
\* 200 with one entry for each row of that email and none for any other row,
\* newest created_at first, and a total equal to the number of those rows.
C16_Listing ==
    [][\A r \in Reqs :
          Completes(r, "list") =>
             LET owned == {i \in DOMAIN api_keys : api_keys[i].email = req'[r].email}
                 keys == req'[r].resp.keys
             IN IF owned = {}
                THEN /\ req'[r].resp.status = 404
                     /\ req'[r].resp.detail = "No API keys found for this email"
                ELSE /\ req'[r].resp.status = 200
                     /\ Len(keys) = Cardinality(owned)
                     /\ {keys[k].id : k \in DOMAIN keys} = {api_keys[i].id : i \in owned}
                     /\ \A a, b \in DOMAIN keys :
                           a < b => keys[a].created_at >= keys[b].created_at
                     /\ req'[r].resp.total = Cardinality(owned)]_vars

\* C16: an owner of two keys listed them: two entries, the newer one first,
\* and a total of 2.
C16_Witness ==
    \E r \in Reqs :
        /\ IsDone(r, "list") /\ req[r].resp.status = 200
        /\ req[r].resp.total = 2
        /\ Len(req[r].resp.keys) = 2
        /\ req[r].resp.keys[1].created_at > req[r].resp.keys[2].created_at

\* C13: in a request to any resource route (teams, players, matches, events,
\* stats, venues) a database call of the handler has been issued only if
\* verify_api_key has ended for that request and returned an identity.
C13_VerifiedBeforeQuery ==
    handler.queries > 0 =>
        /\ req[1].pc = "done" /\ req[1].op = "verify"
        /\ req[1].resp.status = 200
        /\ req[1].resp.key_info # NULL

\* C13: a request with the token of a stored key was verified by the store
\* (the key's count is 1) and its handler issued all of its database calls.
C13_Witness ==
    /\ handler.pc = "done" /\ handler.status = 200
    /\ handler.queries > 1
    /\ api_keys # <<>>
    /\ req[1].api_key = api_keys[1].key
    /\ api_keys[1].usage_count = 1

\* The client has the pages 1..total_pages of its endpoint.
WalkComplete ==
    /\ pager.pc = "done" /\ pager.status = 200
    /\ pager.first = 1
    /\ pager.page = pager.total_pages

Ids(rows) == {rows[k].id : k \in DOMAIN rows}

\* C17: for every paginated endpoint and every set of rows its filters select
\* from a static table, the pages 1..total_pages put one after the other hold
\* exactly total rows, each selected row once.
C17_PagesPartitionRows ==
    WalkComplete =>
        /\ Len(pager.seen) = pager.total
        /\ \A a, b \in DOMAIN pager.seen :
              pager.seen[a].id = pager.seen[b].id => a = b
        /\ Ids(pager.seen) = Ids(pager.selected)

\* The maximum of page_size an endpoint declares.
EndpointMaximum(endpoint) ==
    IF endpoint \in {"get_player_matches", "get_venue_matches"}
    THEN 200
    ELSE MAX_PAGE_SIZE

\* What C18 says of a request whose page_size is at most max (and whose
\* venue, for a venue's matches, exists).
PageFetched(max) ==
    (/\ pager.pc = "done"
     /\ pager.status # 404
     /\ pager.page >= 1
     /\ pager.page_size >= 1 /\ pager.page_size <= max) =>
        /\ pager.status = 200
        /\ pager.limit = pager.page_size
        /\ pager.offset = (pager.page - 1) * pager.page_size
        /\ Len(pager.rows) <= pager.page_size
        /\ Len(pager.rows) =
              (IF pager.total - pager.offset <= 0 THEN 0
               ELSE IF pager.total - pager.offset < pager.page_size
               THEN pager.total - pager.offset
               ELSE pager.page_size)
        /\ Ids(pager.rows) \subseteq Ids(pager.selected)
        /\ Cardinality(Ids(pager.rows)) = Len(pager.rows)
        /\ pager.page > pager.total_pages => pager.rows = <<>>

C19_TotalPages ==
    (pager.pc = "done" /\ pager.status = 200) =>
        /\ pager.total >= 0 /\ pager.page_size >= 1
        /\ pager.total_pages = (pager.total + pager.page_size - 1) \div pager.page_size
        /\ pager.total_pages = 0 <=> pager.total = 0
        /\ pager.total > 0 =>
              /\ (pager.total_pages - 1) * pager.page_size < pager.total
              /\ pager.total <= pager.total_pages * pager.page_size

\* C19: three rows in pages of two make two pages.
C19_Witness ==
    /\ pager.pc = "done" /\ pager.status = 200
    /\ pager.total = 3 /\ pager.page_size = 2 /\ pager.total_pages = 2
    /\ pager.page = 2 /\ Len(pager.rows) = 1

\* A filter value is present: not null and, for a string, not empty.
Present(type, v) == v # NULL /\ (type = "str" => v[1] # "")

\* C20: at every filtered call site the WHERE clause has the predicates the
\* handler always has and one more for each filter that is present (any
\* non-null value, any non-empty string), none for an absent one: a present
\* filter takes no predicate away and none is ignored.
C20_OnePredicatePerFilter ==
    query.site \in {h.name : h \in Handlers} =>
        LET h == HandlerOf(query.site)
            present == {i \in DOMAIN h.filters :
                           Present(h.filters[i].type, query.args[i])}
        IN /\ Len(query.where_clauses) = Len(h.base) + Cardinality(present)
           /\ \A i \in DOMAIN h.base :
                 i \in DOMAIN query.where_clauses /\ query.where_clauses[i] = h.base[i]

\* The filters of handler h whose "if" block runs for the values args.
Acting(h, args) == {i \in DOMAIN h.filters : Truthy(h.filters[i].type, args[i])}

\* C21: filter values reach a statement only as bound parameters, never as
\* text: at every handler, two requests that take the same "if" blocks with
\* different values produce character-identical SQL text.
C21_ValuesOnlyBound ==
    query.site \in {h.name : h \in Handlers} =>
        LET h == HandlerOf(query.site)
        IN \A args2 \in ArgsOf(h.filters) :
               Acting(h, args2) = Acting(h, query.args)
                   => RowQuery(h, BuildWhere(h, args2)) = query.sql

\* C22: every resource list endpoint takes page and page_size and answers
\* with the pagination envelope {total, page, page_size, total_pages}.
C22_ListEnvelope ==
    (pager.pc = "done" /\ pager.status = 200) =>
        /\ PaginationKeys \subseteq pager.keys
        /\ Len(pager.rows) <= pager.page_size

\* C26: at every query-building handler and for every combination of
\* filters the statement agrees with its values: the placeholder indices are
\* exactly 1..n for the n values, LIMIT and OFFSET refer to page_size (or
\* limit) and offset, after the filters, and there is a single WHERE clause.
C26_StatementMatchesValues ==
    query.site # "" =>
        /\ Placeholders(query.sql) = 1..Len(query.bound)
        /\ Cardinality(Occurrences(query.sql, "WHERE")) <= 1
        /\ \A k \in PlaceholdersAfter(query.sql, "LIMIT ") :
              /\ k \in DOMAIN query.bound /\ query.bound[k] = query.limit
              /\ \A j \in Placeholders(query.sql) \ PlaceholdersAfter(query.sql, "OFFSET ") :
                    j <= k
        /\ \A k \in PlaceholdersAfter(query.sql, "OFFSET ") :
              /\ k \in DOMAIN query.bound /\ query.bound[k] = query.offset
              /\ k = Len(query.bound)

\* No validation has written the row.
Untouched(row) == row.usage_count = 0 /\ row.last_used = NULL

\* C23: a request with a page, page_size or limit out of its bounds is
\* answered with the validation error before any database call: no statement
\* was issued for it and no key row has changed.
C23_RejectedBeforeDatabase ==
    handler.status = 422 =>
        /\ handler.queries = 0
        /\ req[1].calls = 0
        /\ \A i \in DOMAIN api_keys : Untouched(api_keys[i])

C29_FailsClosed ==
    /\ (handler.pc = "run" \/ handler.queries > 0 \/ handler.status \in {200, 404, 422}) =>
          /\ IsDone(1, "verify") /\ req[1].resp.status = 200
          /\ req[1].resp.key_info # NULL
          /\ \/ IsDemoKey(req[1].api_key)
             \/ \E i \in DOMAIN api_keys :
                   /\ api_keys[i].key = req[1].api_key
                   /\ api_keys[i].is_active
                   /\ api_keys[i].usage_count >= 1
                   /\ req[1].resp.key_info[1].id = api_keys[i].id
    /\ (IsDone(1, "verify") /\ req[1].resp.status = 500) =>
          /\ req[1].resp.key_info = NULL
          /\ handler.pc # "run"
          /\ handler.queries = 0

\* C29: the statement of the store raised for the token of a stored active
\* key and the request ended with the server error, its handler never called.
C29_Witness ==
    /\ handler.pc = "done" /\ handler.status = 500
    /\ handler.queries = 0
    /\ IsDone(1, "verify") /\ req[1].resp.status = 500
    /\ api_keys # <<>>
    /\ api_keys[1].key = req[1].api_key /\ api_keys[1].is_active
    /\ Untouched(api_keys[1])

\* The token is "nwsl_live_" and 48 characters of the 62 letters and digits.
IssuedFormat(token) ==
    /\ Len(token) = 58
    /\ SubSeq(token, 1, 10) = "nwsl_live_"
    /\ Len(Alphabet) = 62
    /\ \A i \in 11..58 : \E j \in 1..62 : SubSeq(token, i, i) = SubSeq(Alphabet, j, j)

\* The tokens generate_api_key can return.
GeneratedTokens == {generate_api_key(random_part) : random_part \in RandomParts}

GeneratedInFormat == \A token \in GeneratedTokens : IssuedFormat(token)

\* C25: every issued token is "nwsl_live_" followed by exactly 48 characters
\* of the 62 letters and digits (58 characters in all), and the token the
\* registration returns is the token stored in the row it created.
C25_TokenFormat ==
    /\ GeneratedInFormat
    /\ \A i \in DOMAIN api_keys : api_keys[i].key \in GeneratedTokens
    /\ \A r \in Reqs :
          (IsDone(r, "register") /\ req[r].resp.status = 200) =>
              /\ req[r].resp.api_key \in GeneratedTokens
              /\ \E i \in DOMAIN api_keys :
                    /\ api_keys[i].key = req[r].resp.api_key
                    /\ api_keys[i].name = req[r].name
                    /\ api_keys[i].email = req[r].email

\* C25: two registrations have succeeded and two tokens are stored.
C25_Witness ==
    /\ Len(api_keys) = 2
    /\ IsDone(1, "register") /\ req[1].resp.status = 200
    /\ IsDone(2, "register") /\ req[2].resp.status = 200
    /\ req[1].resp.api_key # req[2].resp.api_key

\* C27: under any interleaving of concurrent validations the last_used of a
\* row never moves backwards: a step that writes it writes a time that is
\* not before the one the row had.
C27_LastUsedMonotone ==
    [][\A i \in DOMAIN api_keys :
          api_keys[i].last_used # NULL =>
              /\ api_keys'[i].last_used # NULL
              /\ api_keys'[i].last_used[1] >= api_keys[i].last_used[1]]_vars

\* The usage_count values returned to the accepted verifications of a token.
ReturnedCounts(key) == {req[r].resp.key_info[1].usage_count : r \in Accepted(key)}

\* C28: the usage_count a validation returns is the value of the row after
\* its own increment: the validations accepted for a key, concurrent ones
\* included, have got the counts 1..N back (the row starts at 0), each once,
\* and N is the count of the row.
C28_ReturnedCounts ==
    \A i \in DOMAIN api_keys :
        /\ ReturnedCounts(api_keys[i].key) = 1..Cardinality(Accepted(api_keys[i].key))
        /\ ReturnedCounts(api_keys[i].key) = 1..api_keys[i].usage_count

\* C28: two validations of one key overlapped (the row's last_used is the
\* time the earlier request read, written by the later UPDATE) and got the
\* counts 1 and 2.
C28_Witness ==
    \E i \in DOMAIN api_keys :
        /\ Cardinality(Accepted(api_keys[i].key)) = 2
        /\ ReturnedCounts(api_keys[i].key) = {1, 2}
        /\ api_keys[i].usage_count = 2
        /\ api_keys[i].last_used # NULL /\ api_keys[i].last_used[1] < clock

\* The connections in use are those of the calls in progress, one for each,
\* and they are no more than the pool has: a request holds a connection only
\* while its statement runs, not while it waits or when it is done.
PoolSafe ==
    /\ pool.in_use <= max_size
    /\ pool.in_use = Cardinality({t \in Tasks : pool.task[t].holds = 1})
    /\ \A t \in Tasks :
          /\ pool.task[t].holds \in {0, 1}
          /\ pool.task[t].holds = 1 <=> pool.task[t].pc = "call"

\* C30: every call acquires one connection and gives it back when the call
\* ends, by success or failure; no request holds a connection while it waits
\* for another; the connections in use never exceed the maximum of the pool
\* and none is leaked; and with a fair pool every request that has arrived
\* ends, with more requests than connections too.
C30_PoolSafeAndLive ==
    /\ []PoolSafe
    /\ \A t \in Tasks : (pool.task[t].pc # "idle") ~> (pool.task[t].pc = "done")

\* C30: every connection is in use by the other requests while a request
\* that has ended its first call, and given its connection back, waits for
\* the connection of its second call.
C30_Witness ==
    /\ pool.in_use = max_size
    /\ \E t \in Tasks :
          /\ pool.task[t].pc = "wait" /\ pool.task[t].calls = 1
          /\ pool.task[t].holds = 0

====
